---------------------------- MODULE Spec2Model ----------------------------
(***************************************************************************)
(* Model of the CloudFront paywall demo: the Lambda@Edge viewer-request    *)
(* handler of deploy-script/step-2-cfdistribution.yml (token extraction,   *)
(* signature verification, expiry check, entitlement headers), the         *)
(* distribution around it (cache policy, API key check, mock origin), the  *)
(* deployment script deploy-script/index.js that puts the keys into the    *)
(* function, and the cleanup script cleanup-script/cleanup-script.js.      *)
(*                                                                         *)
(* Text is modelled as a sequence of characters.  A character is a record; *)
(* apart from ordinary characters there are "blobs": one character that    *)
(* stands for a whole run of base64url text (an encoded JWT header, an     *)
(* encoded JWT payload, an RSA signature) or for a whole word of a path.   *)
(* Blobs never contain '.', ',', '/', '=' or ';', so the splitting and     *)
(* searching the code does treats them exactly as it treats the text they  *)
(* stand for.                                                              *)
(***************************************************************************)
EXTENDS Integers, Sequences, FiniteSets, TLC

VARIABLES
    pc,         \* position of the current invocation of exports.handler
    request,    \* event.Records[0].cf.request, the object the handler mutates
    original,   \* the request as the viewer sent it
    now,        \* the clock, in milliseconds (+ new Date())
    jwt,        \* let jwt
    verified,   \* let verified
    obj,        \* let obj
    result,     \* what the invocation returned (or that it threw)
    retLine,    \* the line of the return statement taken
    calls,      \* the calls of verify and getObj made by this invocation, in order
    cache,      \* the CloudFront cache of the content behaviour: key -> body
    originLog,  \* how often the mock origin function ran, per cache key
    response,   \* what the viewer received for the current request
    moduleScope,    \* the module-level constants of the deployed edge function
    suspended,      \* the locals of a second invocation that is in flight
    dpc,            \* position of main() of deploy-script/index.js
    keyUrl,         \* let keyUrl
    pemKeys,        \* let pemKeys
    cpc,            \* position of cleanup-script.js
    argv,           \* process.argv[2] and process.argv[3]
    stack1,         \* let stack1
    stack2,         \* let stack2
    distributionid, \* let distributionid
    counter,        \* the parameter counter of distributionIsDeployed
    isDeployed,     \* what distributionIsDeployed resolved to
    awsLog,         \* the SDK calls and delays of the cleanup script, in order
    config,         \* the distribution config the cleanup script fetched
    console         \* the lines the cleanup script logged

\* the variables of the deployment script and of the cleanup script
deployVars == <<dpc, keyUrl, pemKeys>>
cleanupVars ==
    <<cpc, argv, stack1, stack2, distributionid, config, counter, isDeployed, awsLog,
      console>>
scripts == <<deployVars, cleanupVars>>

\* the locals of the invocation in progress, and all the state of the edge
locals == <<pc, request, original, now, jwt, verified, obj, result, retLine, calls>>
edge == <<locals, cache, originLog, response, suspended>>

vars == <<pc, request, original, now, jwt, verified, obj, result, retLine,
          calls, cache, originLog, response, moduleScope, suspended, scripts>>

-----------------------------------------------------------------------------
(* Characters and strings *)

\* an ordinary character, or a named blob
Ch(x) == [c |-> x, by |-> "", over |-> <<>>]

\* a JavaScript string literal of ordinary characters
S4(a, b, c, d) == <<Ch(a), Ch(b), Ch(c), Ch(d)>>

Dot == Ch(".")
Comma == Ch(",")
Slash == Ch("/")

\* String.prototype.indexOf(pat) >= 0
Contains(s, pat) ==
    \E i \in 1..(Len(s) - Len(pat) + 1) : SubSeq(s, i, i + Len(pat) - 1) = pat

\* s begins with pat (String.prototype.startsWith)
StartsWith(s, pat) == Len(s) >= Len(pat) /\ SubSeq(s, 1, Len(pat)) = pat

\* String.prototype.substring(n): the text from (0-based) index n on
Substring(s, n) == SubSeq(s, n + 1, Len(s))

\* String.prototype.split(sep) for a one-character separator:
\* "a..b" gives <<"a", "", "b">>, "" gives <<"">>
RECURSIVE SplitFrom(_, _, _)
SplitFrom(s, sep, cur) ==
    IF s = <<>> THEN <<cur>>
    ELSE IF Head(s) = sep THEN <<cur>> \o SplitFrom(Tail(s), sep, <<>>)
    ELSE SplitFrom(Tail(s), sep, Append(cur, Head(s)))

Split(s, sep) == SplitFrom(s, sep, <<>>)

\* String.prototype.toLowerCase, on the words used in paths
LowerCh(ch) ==
    IF ch.c = "Product-A" THEN Ch("product-a")
    ELSE IF ch.c = "PRODUCT-B" THEN Ch("product-b")
    ELSE ch

toLowerCase(s) == [i \in 1..Len(s) |-> LowerCh(s[i])]

-----------------------------------------------------------------------------
(* JavaScript values *)

Undefined == [t |-> "undefined"]
Null == [t |-> "null"]
Str(s) == [t |-> "string", s |-> s]
Num(n) == [t |-> "number", n |-> n]
Obj(f) == [t |-> "object", f |-> f]
EmptyArray == [t |-> "array", a |-> <<>>]
Fn == [t |-> "function"]
Bool(b) == [t |-> "boolean", b |-> b]
\* the outcome of an expression that throws
Thrown == [t |-> "throw"]

\* ToBoolean
Truthy(v) ==
    CASE v.t = "undefined" -> FALSE
      [] v.t = "null" -> FALSE
      [] v.t = "string" -> v.s # <<>>
      [] v.t = "number" -> v.n # 0
      [] v.t = "boolean" -> v.b
      [] OTHER -> TRUE

\* v[name]: a TypeError on null and undefined, undefined when there is no such property
Get(v, name) ==
    CASE v.t \in {"null", "undefined"} -> Thrown
      [] v.t = "object" -> IF name \in DOMAIN v.f THEN v.f[name] ELSE Undefined
      [] OTHER -> Undefined

-----------------------------------------------------------------------------
(* Deployment values embedded in the function *)

\* const KEYS = ${PublicKeys}: key id -> public key (PEM)
KEYS == [K1 |-> "pub1", K2 |-> "pub2"]

\* '${ApiKeyValue}'
ApiKeyValue == Str(<<Ch("API-KEY")>>)

\* const response401
response401 ==
    [status |-> "401",
     statusDescription |-> "Not authorized",
     headers |-> [contentType |-> <<[key |-> "Content-Type", value |-> "text/html"]>>],
     body |-> "Please login"]

\* a mapping that gives every unknown product the code of product-a
mappingDefault(name) ==
    IF name = <<Ch("product-b")>> THEN Str(<<Ch("B")>>) ELSE Str(<<Ch("A")>>)

\* the object literal of const mapping
mappingLiteral ==
    (<<Ch("product-a")>> :> Str(<<Ch("A")>>)) @@ (<<Ch("product-b")>> :> Str(<<Ch("B")>>))

\* mapping[name]: an own property of the object, else what an object inherits
mapping(name) ==
    IF name \in DOMAIN moduleScope.mapping THEN moduleScope.mapping[name]
    ELSE IF name = <<Ch("constructor")>> THEN Fn
    ELSE Undefined

\* the own keys of mapping
MappingKeys == {<<Ch("product-a")>>, <<Ch("product-b")>>}

\* the module scope of the function created from the template with ${PublicKeys}
\* replaced by the text of keys: const KEYS, const response401, const mapping
ModuleScope(keys) ==
    [KEYS |-> keys, response401 |-> response401, mapping |-> mappingLiteral]

\* there is no function: the distribution stack was not created
NotDeployed == [KEYS |-> Undefined]

-----------------------------------------------------------------------------
(* RSA-SHA256 *)

\* the private key whose signatures verify under a public key
PrivateOf(pub) ==
    CASE pub = "pub1" -> "priv1"
      [] pub = "pub2" -> "priv2"
      [] OTHER -> "nobody"

\* the signature of data under a private key, as one base64url blob
Sign(priv, data) == [c |-> "sig", by |-> priv, over |-> data]

\* the text a base64url blob encodes; anything else decodes to bytes that are no JSON
BlobText ==
    [hK1 |-> "{kid:K1}", hK2 |-> "{kid:K2}", hK9 |-> "{kid:K9}",
     hNoKid |-> "{alg:RS256}", hNull |-> "null", hBad |-> "garbage",
     pA1 |-> "{exp:1,subs:A}", pA2 |-> "{exp:2,subs:A}", pB2 |-> "{exp:2,subs:B}",
     pAcB2 |-> "{exp:2,subs:A,B}", pAB2 |-> "{exp:2,subs:AB}",
     pNone2 |-> "{exp:2}", pEmpty2 |-> "{exp:2,subs:}",
     pNoExp |-> "{subs:A}", pStrExp |-> "{exp:soon,subs:A}",
     pSubsNum |-> "{exp:2,subs:5}",
     pNull |-> "null", pNum |-> "5", pBad |-> "garbage"]

\* Buffer.from(str, 'base64url').toString('utf8')
base64urlDecode(str) ==
    IF Len(str) = 1 /\ str[1].c \in DOMAIN BlobText THEN BlobText[str[1].c] ELSE "garbage"

Claims(exp, subs) == Obj([exp |-> exp, subs |-> subs])

\* JSON.parse; Thrown for a SyntaxError.  The property "custom:subs" is the field subs.
JSONparse(text) ==
    CASE text = "{kid:K1}" -> Obj([kid |-> Str(<<Ch("K1")>>)])
      [] text = "{kid:K2}" -> Obj([kid |-> Str(<<Ch("K2")>>)])
      [] text = "{kid:K9}" -> Obj([kid |-> Str(<<Ch("K9")>>)])
      [] text = "{alg:RS256}" -> Obj([alg |-> Str(<<Ch("RS256")>>)])
      [] text = "null" -> Null
      [] text = "5" -> Num(5)
      [] text = "{exp:1,subs:A}" -> Claims(Num(1), Str(<<Ch("A")>>))
      [] text = "{exp:2,subs:A}" -> Claims(Num(2), Str(<<Ch("A")>>))
      [] text = "{exp:2,subs:B}" -> Claims(Num(2), Str(<<Ch("B")>>))
      [] text = "{exp:2,subs:A,B}" -> Claims(Num(2), Str(<<Ch("A"), Comma, Ch("B")>>))
      [] text = "{exp:2,subs:AB}" -> Claims(Num(2), Str(<<Ch("A"), Ch("B")>>))
      [] text = "{exp:2}" -> Obj([exp |-> Num(2)])
      [] text = "{exp:2,subs:}" -> Claims(Num(2), Str(<<>>))
      [] text = "{subs:A}" -> Obj([subs |-> Str(<<Ch("A")>>)])
      [] text = "{exp:soon,subs:A}" -> Claims(Str(<<Ch("soon")>>), Str(<<Ch("A")>>))
      [] text = "{exp:2,subs:5}" -> Claims(Num(2), Num(5))
      [] OTHER -> Thrown

\* Buffer.from(str, 'base64url').toString('base64'): the signature bytes a segment
\* encodes.  A TypeError when the segment is undefined.
base64urlToBase64(seg) ==
    IF seg = Undefined THEN Thrown
    ELSE IF Len(seg.s) = 1 /\ seg.s[1].c = "sig" THEN seg.s[1]
    ELSE [c |-> "bytes", by |-> "", over |-> <<>>]

\* verifyFunction.verify(key, signature, 'base64') after write(data): throws when the
\* key is no key
CryptoVerify(key, data, signature) ==
    IF key.t # "string" THEN Thrown
    ELSE Bool(signature.c = "sig" /\ signature.by = PrivateOf(key.s)
              /\ signature.over = data)

\* getKey falling back to the first key when the kid names none
getKeyFallback(kid) ==
    LET name == IF kid.t = "string" /\ Len(kid.s) = 1 THEN kid.s[1].c ELSE "?"
    IN  IF name \in DOMAIN KEYS THEN Str(KEYS[name]) ELSE Str(KEYS.K1)

\* function getKey(kid): KEYS[kid], and null when that throws (KEYS is null); a
\* property name is the string form of kid
getKey(kid) ==
    LET name == CASE kid.t = "string" /\ Len(kid.s) = 1 -> kid.s[1].c
                  [] kid.t = "undefined" -> "undefined"
                  [] OTHER -> "?"
        keys == moduleScope.KEYS
    IN  IF keys.t \in {"null", "undefined"} THEN Null
        ELSE IF keys.t = "object" /\ name \in DOMAIN keys.f THEN Str(keys.f[name])
        ELSE Undefined

\* the i-th (0-based) element of an array of strings, undefined past its end
At(arr, i) == IF i + 1 <= Len(arr) THEN Str(arr[i + 1]) ELSE Undefined

\* header + '.' + payload: an undefined payload is written as the word undefined
Concat(header, payload) ==
    header \o <<Dot>> \o (IF payload = Undefined THEN <<Ch("undefined")>> ELSE payload.s)

\* function verify(jwt): every exception is caught and gives false
verify(token) ==
    LET parts == Split(token, Dot)
        header == parts[1]
        headerObj == JSONparse(base64urlDecode(header))
        payload == At(parts, 1)
        signature == At(parts, 2)
        kid == IF headerObj = Thrown THEN Thrown ELSE Get(headerObj, "kid")
        base64Signature == base64urlToBase64(signature)
        outcome == IF kid = Thrown \/ base64Signature = Thrown THEN Thrown
                   ELSE CryptoVerify(getKey(kid), Concat(header, payload), base64Signature)
    IN  IF outcome = Thrown THEN FALSE ELSE outcome.b

\* a getObj without the try and catch: a SyntaxError of JSON.parse leaves it
getObjStrict(token) ==
    LET jwtPayload == At(Split(token, Dot), 1)
    IN  IF jwtPayload = Undefined THEN Thrown
        ELSE JSONparse(base64urlDecode(jwtPayload.s))

\* function getObj(jwt): the claims, or an empty array when they are no JSON
getObj(token) ==
    LET jwtPayload == At(Split(token, Dot), 1)
        parsed == IF jwtPayload = Undefined THEN Thrown
                  ELSE JSONparse(base64urlDecode(jwtPayload.s))
    IN  IF jwtPayload = Undefined THEN Thrown
        ELSE IF parsed = Thrown THEN EmptyArray ELSE parsed

\* (+ new Date()) / 1000 is compared in milliseconds
MsPerSec == 1000

\* expiration <= now: a token is expired from the second of its exp on
LessThanNowInclusive(expiration, clock) ==
    IF expiration.t = "number" THEN expiration.n * MsPerSec <= clock ELSE FALSE

\* the comparison of isExpired turned round
LessThanNowSwapped(expiration, clock) ==
    IF expiration.t = "number" THEN expiration.n * MsPerSec > clock ELSE FALSE

\* expiration < now: a number is compared, undefined and a word are NaN (false)
LessThanNow(expiration, clock) ==
    IF expiration.t = "number" THEN expiration.n * MsPerSec < clock ELSE FALSE

\* function isExpired(jwtObj); Thrown when jwtObj is null
isExpired(jwtObj, clock) ==
    LET expiration == Get(jwtObj, "exp")
    IN  IF expiration = Thrown THEN Thrown ELSE Bool(LessThanNow(expiration, clock))

-----------------------------------------------------------------------------
(* exports.handler, one action per stage of its body *)

NoRequest ==
    [method |-> "", uri |-> <<>>,
     headers |-> [cookie |-> <<>>, xIsSubscriber |-> Undefined, xApiKey |-> Undefined]]

NoResult == [kind |-> "none"]

\* return request
Forward(req) == [kind |-> "request", request |-> req]

\* return response401
Reject == [kind |-> "response", response |-> moduleScope.response401]

\* an exception leaves the async handler: its promise is rejected
Throw == [kind |-> "throw"]

\* const STR = 'jwt='
STR == S4("j", "w", "t", "=")

\* a cookie scan without the break: the last entry whose value contains STR wins
RECURSIVE FindJwtLast(_)
FindJwtLast(cookie) ==
    IF cookie = <<>> THEN Null
    ELSE IF FindJwtLast(Tail(cookie)) # Null THEN FindJwtLast(Tail(cookie))
    ELSE IF Contains(Head(cookie), STR) THEN Str(Substring(Head(cookie), Len(STR)))
    ELSE Null

\* the for loop over request.headers.cookie: the first entry whose value contains STR
\* gives value.substring(STR.length); null when there is none
RECURSIVE FindJwt(_)
FindJwt(cookie) ==
    IF cookie = <<>> THEN Null
    ELSE IF Contains(Head(cookie), STR) THEN Str(Substring(Head(cookie), Len(STR)))
    ELSE FindJwt(Tail(cookie))

\* obj['custom:subs'] ? obj['custom:subs'].split(',') : []; Thrown when the claim is
\* truthy and has no split method
SubsOf(claims) ==
    LET claim == Get(claims, "subs")
    IN  IF claim = Thrown THEN Thrown
        ELSE IF ~Truthy(claim) THEN [t |-> "array", a |-> <<>>]
        ELSE IF claim.t = "string" THEN [t |-> "array", a |-> Split(claim.s, Comma)]
        ELSE Thrown

\* request.uri.split('/')[1]
ProductFromUrl(uri) == At(Split(uri, Slash), 1)

\* Array.prototype.includes
Includes(arr, v) == \E i \in 1..Len(arr) : Str(arr[i]) = v

\* membership by substring instead of by equality
IsSubscriberPartial(subs, productFromUrl) ==
    LET code == mapping(toLowerCase(productFromUrl))
    IN  code.t = "string" /\ \E i \in 1..Len(subs) : Contains(subs[i], code.s)

\* subs.includes(mapping[productFromUrl.toLowerCase()])
IsSubscriber(subs, productFromUrl) == Includes(subs, mapping(toLowerCase(productFromUrl)))

\* the value written to request.headers['x-is-subscriber']
SubscriberHeader(subs, productFromUrl) ==
    IF IsSubscriber(subs, productFromUrl) THEN Str(<<Ch("true")>>) ELSE Str(<<Ch("false")>>)

Return(res, line) ==
    /\ result' = res
    /\ retLine' = line
    /\ pc' = "done"

\* a method check that lets only requests that are neither GET nor HEAD through
CheckMethodGetHead ==
    /\ pc = "start"
    /\ IF request.method \notin {"GET", "HEAD"}
       THEN Return(Forward(request), 344)
       ELSE pc' = "scan" /\ UNCHANGED <<result, retLine>>
    /\ UNCHANGED <<request, original, now, jwt, verified, obj, calls, cache, originLog,
                   response>>
    /\ UNCHANGED <<moduleScope, suspended, scripts>>

\* a handler without the method check: every method is filtered
CheckMethodAll ==
    /\ pc = "start"
    /\ pc' = "scan"
    /\ UNCHANGED <<request, original, now, jwt, verified, obj, result, retLine, calls,
                   cache, originLog, response>>
    /\ UNCHANGED <<moduleScope, suspended, scripts>>

\* a verification whose result is not looked at
VerifyUnchecked ==
    /\ pc = "verify"
    /\ verified' = verify(jwt.s)
    /\ calls' = Append(calls, [fn |-> "verify", arg |-> jwt.s, ret |-> Bool(verified')])
    /\ pc' = "claims"
    /\ UNCHANGED <<request, original, now, jwt, obj, result, retLine, cache, originLog,
                   response>>
    /\ UNCHANGED <<moduleScope, suspended, scripts>>

\* a verification that keeps its result in a module-level variable: once a token has
\* verified, every later token passes
VerifySticky ==
    /\ pc = "verify"
    /\ verified' = (("verified" \in DOMAIN moduleScope /\ moduleScope.verified)
                       \/ verify(jwt.s))
    /\ moduleScope' = [KEYS |-> moduleScope.KEYS,
                       response401 |-> moduleScope.response401,
                       mapping |-> moduleScope.mapping,
                       verified |-> verified']
    /\ calls' = Append(calls, [fn |-> "verify", arg |-> jwt.s, ret |-> Bool(verified')])
    /\ IF ~verified'
       THEN Return([kind |-> "response", response |-> moduleScope.response401], 369)
       ELSE pc' = "claims" /\ UNCHANGED <<result, retLine>>
    /\ UNCHANGED <<request, original, now, jwt, obj, cache, originLog, response>>
    /\ UNCHANGED <<suspended, scripts>>

\* an expiry check that answers an expired token with a response of its own
CheckExpiredLeaky ==
    /\ pc = "claims"
    /\ obj' = getObj(jwt.s)
    /\ calls' = Append(calls, [fn |-> "getObj", arg |-> jwt.s, ret |-> obj'])
    /\ LET expired == IF obj' = Thrown THEN Thrown ELSE isExpired(obj', now)
       IN  IF expired = Thrown THEN Return(Throw, 374)
           ELSE IF expired.b
           THEN Return([kind |-> "response",
                        response |-> [moduleScope.response401 EXCEPT
                                        !.body = "Token expired"]], 375)
           ELSE pc' = "entitle" /\ UNCHANGED <<result, retLine>>
    /\ UNCHANGED <<request, original, now, jwt, verified, cache, originLog, response>>
    /\ UNCHANGED <<moduleScope, suspended, scripts>>

\* the edge runtime invokes the handler with a viewer request at clock reading t
Invoke(req, t) ==
    /\ pc = "idle"
    /\ moduleScope # NotDeployed
    /\ t >= now
    /\ pc' = "start"
    /\ request' = req
    /\ original' = req
    /\ now' = t
    /\ UNCHANGED <<jwt, verified, obj, result, retLine, calls, cache, originLog, response>>
    /\ UNCHANGED <<moduleScope, suspended, scripts>>

\* if (request.method !== 'GET') return request
CheckMethod ==
    /\ pc = "start"
    /\ IF request.method # "GET"
       THEN Return(Forward(request), 344)
       ELSE pc' = "scan" /\ UNCHANGED <<result, retLine>>
    /\ UNCHANGED <<request, original, now, jwt, verified, obj, calls, cache, originLog,
                   response>>
    /\ UNCHANGED <<moduleScope, suspended, scripts>>

\* the cookie scan, and if (!jwt) return response401
ScanCookies ==
    /\ pc = "scan"
    /\ jwt' = FindJwt(request.headers.cookie)
    /\ IF ~Truthy(jwt')
       THEN Return(Reject, 363)
       ELSE pc' = "verify" /\ UNCHANGED <<result, retLine>>
    /\ UNCHANGED <<request, original, now, verified, obj, calls, cache, originLog,
                   response>>
    /\ UNCHANGED <<moduleScope, suspended, scripts>>

\* let verified = verify(jwt); if (!verified) return response401
Verify ==
    /\ pc = "verify"
    /\ verified' = verify(jwt.s)
    /\ calls' = Append(calls, [fn |-> "verify", arg |-> jwt.s, ret |-> Bool(verified')])
    /\ IF ~verified'
       THEN Return(Reject, 369)
       ELSE pc' = "claims" /\ UNCHANGED <<result, retLine>>
    /\ UNCHANGED <<request, original, now, jwt, obj, cache, originLog, response>>
    /\ UNCHANGED <<moduleScope, suspended, scripts>>

\* let obj = getObj(jwt); if (isExpired(obj)) return response401
CheckExpired ==
    /\ pc = "claims"
    /\ obj' = getObj(jwt.s)
    /\ calls' = Append(calls, [fn |-> "getObj", arg |-> jwt.s, ret |-> obj'])
    /\ LET expired == IF obj' = Thrown THEN Thrown ELSE isExpired(obj', now)
       IN  IF expired = Thrown THEN Return(Throw, 374)
           ELSE IF expired.b THEN Return(Reject, 375)
           ELSE pc' = "entitle" /\ UNCHANGED <<result, retLine>>
    /\ UNCHANGED <<request, original, now, jwt, verified, cache, originLog, response>>
    /\ UNCHANGED <<moduleScope, suspended, scripts>>

\* the subscriptions, the product of the url, the two headers, return request
Entitle ==
    /\ pc = "entitle"
    /\ LET subs == SubsOf(obj)
           productFromUrl == ProductFromUrl(request.uri)
       IN  IF subs = Thrown
           THEN Return(Throw, 378) /\ UNCHANGED request
           ELSE IF ~Truthy(productFromUrl)
           THEN Return(Forward(request), 383) /\ UNCHANGED request
           ELSE /\ request' =
                     [request EXCEPT
                        !.headers.xIsSubscriber = SubscriberHeader(subs.a, productFromUrl.s),
                        !.headers.xApiKey = ApiKeyValue]
                /\ Return(Forward(request'), 400)
    /\ UNCHANGED <<original, now, jwt, verified, obj, calls, cache, originLog, response>>
    /\ UNCHANGED <<moduleScope, suspended, scripts>>

\* the invocation is over; the next one starts from fresh locals
Reset(at) ==
    /\ pc = at
    /\ pc' = "idle"
    /\ request' = NoRequest
    /\ original' = NoRequest
    /\ jwt' = Null
    /\ verified' = FALSE
    /\ obj' = Undefined
    /\ result' = NoResult
    /\ retLine' = 0
    /\ calls' = <<>>
    /\ response' = "none"
    /\ UNCHANGED <<now, cache, originLog>>
    /\ UNCHANGED <<moduleScope, suspended, scripts>>

Finish == Reset("done")

-----------------------------------------------------------------------------
(* The requests viewers send *)

\* the number of entries of a request's cookie header
MaxCookies == 2

\* a compact token: header.payload.signature, signed by priv over header.payload
Token(h, p, priv) == <<Ch(h), Dot, Ch(p), Dot, Sign(priv, <<Ch(h), Dot, Ch(p)>>)>>

PayloadBlobs ==
    {"pA1", "pA2", "pB2", "pAcB2", "pAB2", "pNone2", "pEmpty2", "pNoExp", "pStrExp",
     "pSubsNum", "pNull", "pNum", "pBad"}

\* tokens as the identity provider issues them (and some it would not), under key K1
IssuedTokens == {Token("hK1", p, "priv1") : p \in PayloadBlobs}

\* tokens whose key is the matter: the second key, a key that answers to another kid,
\* an attacker's key, an unknown kid, no kid, a header that is null or no JSON
KeyTokens ==
    {Token("hK2", "pAcB2", "priv2"), Token("hK2", "pA2", "priv1"),
     Token("hK1", "pA2", "privX"), Token("hK9", "pA2", "privX"),
     Token("hK9", "pA2", "priv1"), Token("hNoKid", "pA2", "priv1"),
     Token("hNull", "pA2", "priv1"), Token("hBad", "pA2", "priv1")}

\* a payload swapped under another token's signature, and a damaged signature
TamperedTokens ==
    {<<Ch("hK1"), Dot, Ch("pAcB2"), Dot, Sign("priv1", <<Ch("hK1"), Dot, Ch("pB2")>>)>>,
     <<Ch("hK1"), Dot, Ch("pA2"), Dot, Ch("sBad")>>}

\* tokens that do not have three non-empty segments
OddTokens ==
    {<<>>, <<Ch("hK1")>>, <<Ch("hK1"), Dot, Ch("pA2")>>,
     Token("hK1", "pA2", "priv1") \o <<Dot, Ch("extra")>>,
     <<Ch("hK1"), Dot, Dot, Sign("priv1", <<Ch("hK1"), Dot>>)>>}

Tokens == IssuedTokens \cup KeyTokens \cup TamperedTokens \cup OddTokens

\* cookie values that are not 'jwt=' followed by a token
OtherCookies ==
    {<<Ch("f"), Ch("o"), Ch("o"), Ch("="), Ch("bar")>>,
     <<Ch("a"), Ch("="), Ch("1"), Ch(";"), Ch(" ")>> \o STR \o Token("hK1", "pA2", "priv1"),
     <<Ch("a"), Ch("b"), Ch("c"), Ch("=")>> \o Token("hK1", "pA2", "priv1")
         \o <<Dot, Ch(";"), Ch(" ")>> \o STR \o <<Ch("x")>>,
     Token("hK1", "pA2", "priv1")}

CookieValues == {STR \o t : t \in Tokens} \cup OtherCookies

\* entries that may precede the last one
LeadingCookies ==
    {<<Ch("f"), Ch("o"), Ch("o"), Ch("="), Ch("bar")>>,
     STR \o <<Ch("hK1"), Dot, Ch("pA2"), Dot, Ch("sBad")>>,
     STR \o Token("hK1", "pB2", "priv1")}

RECURSIVE CookieLists(_)
CookieLists(n) ==
    IF n = 0 THEN {<<>>}
    ELSE IF n = 1 THEN {<<v>> : v \in CookieValues}
    ELSE {<<l>> \o rest : l \in LeadingCookies, rest \in CookieLists(n - 1)}

Cookies == UNION {CookieLists(n) : n \in 0..MaxCookies}

Path(product, id) == <<Slash, Ch(product), Slash, Ch("content"), Slash, Ch(id)>>

\* paths of the content behaviour /*/content/*
Uris ==
    {Path("product-a", "1"), Path("Product-A", "1"), Path("PRODUCT-B", "1"),
     Path("product-c", "5"), Path("constructor", "1"),
     <<Slash, Slash, Ch("content"), Slash, Ch("1")>>,
     <<Slash, Ch("product-a"), Slash, Ch("content"), Slash>>}

\* AllowedMethods of the content behaviour
Methods == {"GET", "HEAD", "OPTIONS"}

\* clock readings, in milliseconds; the tokens expire at 1 s and at 2 s
Times == {1500, 2000, 2500}

\* headers a viewer may set itself
ViewerSubscriber == {Undefined, Str(<<Ch("true")>>)}

Requests ==
    {[method |-> m, uri |-> u,
      headers |-> [cookie |-> c, xIsSubscriber |-> x, xApiKey |-> Undefined]] :
        m \in Methods, u \in Uris, c \in Cookies, x \in ViewerSubscriber}

-----------------------------------------------------------------------------
(* The handler alone: any number of invocations, one after the other *)

\* the locals of an invocation that has not begun
IdleFrame ==
    [pc |-> "idle", request |-> NoRequest, original |-> NoRequest, now |-> 0,
     jwt |-> Null, verified |-> FALSE, obj |-> Undefined, result |-> NoResult,
     retLine |-> 0, calls |-> <<>>]

\* no invocation has begun, the cache is empty
InitEdge ==
    /\ pc = "idle"
    /\ request = NoRequest
    /\ original = NoRequest
    /\ now = 0
    /\ jwt = Null
    /\ verified = FALSE
    /\ obj = Undefined
    /\ result = NoResult
    /\ retLine = 0
    /\ calls = <<>>
    /\ cache = <<>>
    /\ originLog = <<>>
    /\ response = "none"
    /\ suspended = IdleFrame

\* the deployment script has run and obtained the keys
Deployed ==
    /\ moduleScope = ModuleScope(Obj(KEYS))
    /\ dpc = "ended"
    /\ keyUrl = Str(<<Ch("https://idp/.well-known/jwks.json")>>)
    /\ pemKeys = Obj(KEYS)

\* the cleanup script is not running
NoCleanup ==
    /\ cpc = "off"
    /\ argv = <<Undefined, Undefined>>
    /\ stack1 = Null
    /\ stack2 = Null
    /\ distributionid = Null
    /\ config = Undefined
    /\ counter = 0
    /\ isDeployed = Undefined
    /\ awsLog = <<>>
    /\ console = <<>>

Init == InitEdge /\ Deployed /\ NoCleanup

Receive == pc = "idle" /\ \E req \in Requests, t \in Times : Invoke(req, t)

Next ==
    \/ Receive
    \/ CheckMethod
    \/ ScanCookies
    \/ Verify
    \/ CheckExpired
    \/ Entitle
    \/ Finish

Spec == Init /\ [][Next]_vars

-----------------------------------------------------------------------------
(* The content behaviour of the distribution: the handler on viewer-request, the cache,
   the API key check of the API Gateway, the mock origin function *)

\* how often the origin function may run for one cache key
MaxOriginCalls == 2

\* a cache key made of the path alone
CacheKeyPathOnly(req) == [uri |-> req.uri, xIsSubscriber |-> Undefined]

\* a cache key that also holds the cookies of the request
CacheKeyWithCookies(req) ==
    [uri |-> req.uri, xIsSubscriber |-> req.headers.xIsSubscriber,
     cookie |-> req.headers.cookie]

\* PaywallDemoCfCachePolicy: no cookies, no query strings, the header x-is-subscriber
CacheKey(req) == [uri |-> req.uri, xIsSubscriber |-> req.headers.xIsSubscriber]

\* the mock origin function: event.path.split('/'), product name and content id, then
\* the header set by the edge function
OriginHandler(req) ==
    LET pathTokens == Split(req.uri, Slash)
        productName == At(pathTokens, 1)
        contentId == At(pathTokens, 3)
        isSubscriber == req.headers.xIsSubscriber
    IN  IF ~Truthy(productName) \/ ~Truthy(contentId)
        THEN [status |-> "400", body |-> "Invalid URL"]
        ELSE IF isSubscriber = Str(<<Ch("true")>>)
        THEN [status |-> "200", body |-> "Full content"]
        ELSE [status |-> "200", body |-> "Preview only"]

\* Auth: ApiKeyRequired: the API Gateway lets a request through that carries the key
HasApiKey(req) == req.headers.xApiKey = ApiKeyValue

Calls(key) == IF key \in DOMAIN originLog THEN originLog[key] ELSE 0

\* the handler returned response401: it is the viewer's response
Respond401 ==
    /\ pc = "done"
    /\ result.kind = "response"
    /\ response' = [status |-> result.response.status, body |-> result.response.body]
    /\ pc' = "served"
    /\ UNCHANGED <<request, original, now, jwt, verified, obj, result, retLine, calls,
                   cache, originLog>>
    /\ UNCHANGED <<moduleScope, suspended, scripts>>

\* the handler threw: the viewer gets the error of the edge runtime
EdgeError ==
    /\ pc = "done"
    /\ result.kind = "throw"
    /\ response' = [status |-> "502", body |-> "LambdaExecutionError"]
    /\ pc' = "served"
    /\ UNCHANGED <<request, original, now, jwt, verified, obj, result, retLine, calls,
                   cache, originLog>>
    /\ UNCHANGED <<moduleScope, suspended, scripts>>

\* the handler returned the request and the cache holds its key; a HEAD request gets no
\* body
CacheHit ==
    /\ pc = "done"
    /\ result.kind = "request"
    /\ CacheKey(result.request) \in DOMAIN cache
    /\ response' = IF result.request.method = "HEAD"
                   THEN [cache[CacheKey(result.request)] EXCEPT !.body = ""]
                   ELSE cache[CacheKey(result.request)]
    /\ pc' = "served"
    /\ UNCHANGED <<request, original, now, jwt, verified, obj, result, retLine, calls,
                   cache, originLog>>
    /\ UNCHANGED <<moduleScope, suspended, scripts>>

\* the handler returned the request and the cache does not hold its key: the request
\* goes to the origin, and a 200 response is cached (MinTTL 86400)
OriginFetch ==
    /\ pc = "done"
    /\ result.kind = "request"
    /\ CacheKey(result.request) \notin DOMAIN cache
    /\ IF ~HasApiKey(result.request)
       THEN /\ response' = [status |-> "403", body |-> "Forbidden"]
            /\ UNCHANGED <<cache, originLog>>
       ELSE LET key == CacheKey(result.request)
                answer == OriginHandler(result.request)
            IN  /\ Calls(key) < MaxOriginCalls
                /\ originLog' = (key :> (Calls(key) + 1)) @@ originLog
                /\ response' = answer
                /\ cache' = IF answer.status = "200" THEN (key :> answer) @@ cache
                            ELSE cache
    /\ pc' = "served"
    /\ UNCHANGED <<request, original, now, jwt, verified, obj, result, retLine, calls>>
    /\ UNCHANGED <<moduleScope, suspended, scripts>>

Served == Reset("served")

\* the tokens of the viewers of the distribution: a subscriber of A, a subscriber of B,
\* a subscriber of B whose payload was swapped for that of a subscriber of A and B, a
\* token whose payload is the JSON text null
CdnCookies ==
    {<<>>,
     <<STR \o Token("hK1", "pNull", "priv1")>>,
     <<STR \o Token("hK1", "pA2", "priv1")>>,
     <<STR \o Token("hK1", "pB2", "priv1")>>,
     <<STR \o <<Ch("hK1"), Dot, Ch("pAcB2"), Dot,
                Sign("priv1", <<Ch("hK1"), Dot, Ch("pB2")>>)>>>>}

CdnUris ==
    {Path("product-a", "1"), Path("PRODUCT-B", "1"), Path("product-c", "5"),
     <<Slash, Slash, Ch("content"), Slash, Ch("1")>>,
     <<Slash, Ch("product-c"), Slash, Ch("content"), Slash>>}

\* what a viewer may put into x-api-key: nothing, or a guess that is not the key
ViewerApiKey == {Undefined, Str(<<Ch("guess")>>)}

CdnRequests ==
    {[method |-> m, uri |-> u,
      headers |-> [cookie |-> c, xIsSubscriber |-> x, xApiKey |-> k]] :
        m \in {"GET", "HEAD"}, u \in CdnUris, c \in CdnCookies,
        x \in ViewerSubscriber, k \in ViewerApiKey}

ReceiveCdn == pc = "idle" /\ \E req \in CdnRequests, t \in Times : Invoke(req, t)

NextCdn ==
    \/ ReceiveCdn
    \/ CheckMethod
    \/ ScanCookies
    \/ Verify
    \/ CheckExpired
    \/ Entitle
    \/ Respond401
    \/ EdgeError
    \/ CacheHit
    \/ OriginFetch
    \/ Served

SpecCdn == Init /\ [][NextCdn]_vars

-----------------------------------------------------------------------------
(* Two invocations in flight at once.  An execution environment runs one invocation at a
   time and keeps its module scope from one to the next; environments that run at the
   same time share nothing.  Here the steps of two invocations interleave freely over
   one module scope, which allows every order of steps either arrangement has. *)

\* the locals of the invocation whose steps are being taken
Frame ==
    [pc |-> pc, request |-> request, original |-> original, now |-> now, jwt |-> jwt,
     verified |-> verified, obj |-> obj, result |-> result, retLine |-> retLine,
     calls |-> calls]

\* the other invocation takes the next steps
Switch ==
    /\ suspended # Frame
    /\ suspended' = Frame
    /\ pc' = suspended.pc
    /\ request' = suspended.request
    /\ original' = suspended.original
    /\ now' = suspended.now
    /\ jwt' = suspended.jwt
    /\ verified' = suspended.verified
    /\ obj' = suspended.obj
    /\ result' = suspended.result
    /\ retLine' = suspended.retLine
    /\ calls' = suspended.calls
    /\ UNCHANGED <<cache, originLog, response, moduleScope, scripts>>

\* a viewer without cookies, a subscriber of A (whose token expires at 2 s), a subscriber
\* of B, a token with a damaged signature, a token whose payload is no JSON
FewCookies ==
    {<<>>,
     <<STR \o Token("hK1", "pA2", "priv1")>>,
     <<STR \o Token("hK1", "pB2", "priv1")>>,
     <<STR \o <<Ch("hK1"), Dot, Ch("pA2"), Dot, Ch("sBad")>>>>,
     <<STR \o Token("hK1", "pBad", "priv1")>>}

FewRequests ==
    {[method |-> m, uri |-> Path("product-a", "1"),
      headers |-> [cookie |-> c, xIsSubscriber |-> Undefined, xApiKey |-> Undefined]] :
        m \in {"GET", "OPTIONS"}, c \in FewCookies}

ReceiveFew == pc = "idle" /\ \E req \in FewRequests, t \in Times : Invoke(req, t)

NextInterleaved ==
    \/ ReceiveFew
    \/ CheckMethod
    \/ ScanCookies
    \/ Verify
    \/ CheckExpired
    \/ Entitle
    \/ Finish
    \/ Switch

SpecInterleaved == Init /\ [][NextInterleaved]_vars

-----------------------------------------------------------------------------
(* deploy-script/index.js: main() creates the user pool stack, fetches the keys of the
   user pool, and creates the distribution stack with the keys in the function's code *)

\* what the well-known URL of the user pool answers with: two keys, no keys, an error
\* message, a key that is no RSA key, text that is no JSON, a connection error
KeyAnswers ==
    {"{keys:[K1,K2]}", "{keys:[]}", "{message:Not found}", "{keys:[oct]}", "<html>",
     "ECONNRESET"}

\* function getKeys(url), by what the URL answers: JSON.parse of the chunk received;
\* Thrown when the promise is rejected (a SyntaxError, an error of the connection)
getKeys(answer) ==
    CASE answer = "{keys:[K1,K2]}" ->
            Obj([keys |-> [t |-> "array",
                           a |-> <<[kid |-> "K1", kty |-> "RSA", pem |-> "pub1"],
                                   [kid |-> "K2", kty |-> "RSA", pem |-> "pub2"]>>]])
      [] answer = "{keys:[]}" -> Obj([keys |-> EmptyArray])
      [] answer = "{message:Not found}" -> Obj([message |-> Str(<<Ch("Not found")>>)])
      [] answer = "{keys:[oct]}" ->
            Obj([keys |-> [t |-> "array",
                           a |-> <<[kid |-> "K1", kty |-> "oct", pem |-> ""]>>]])
      [] OTHER -> Thrown

\* function createPemKeys(keysArray): kid -> pem; Thrown when keysArray has no map
\* method or jwkToPem rejects a key
createPemKeys(keysArray) ==
    IF keysArray.t # "array" THEN Thrown
    ELSE IF \E i \in 1..Len(keysArray.a) : keysArray.a[i].kty # "RSA" THEN Thrown
    ELSE Obj([kid \in {keysArray.a[i].kid : i \in 1..Len(keysArray.a)} |->
                 keysArray.a[CHOOSE i \in 1..Len(keysArray.a) :
                                keysArray.a[i].kid = kid].pem])

\* JSON.stringify(pemKeys) as it reads in the place of ${PublicKeys}: the literal null,
\* or an object literal with the same properties
KeysLiteral(v) == IF v.t = "object" THEN Obj(v.f) ELSE Null

\* createStack, waitFor and describeStacks of the user pool stack, and the search of its
\* outputs for UserPoolUrl
CreateUserPool ==
    /\ dpc = "start"
    /\ \E outcome \in {"rejected", "no output", "output"} :
          IF outcome = "rejected"
          THEN dpc' = "caught" /\ UNCHANGED keyUrl
          ELSE /\ keyUrl' = IF outcome = "output"
                            THEN Str(<<Ch("https://idp/.well-known/jwks.json")>>)
                            ELSE Null
               /\ dpc' = "keys"
    /\ UNCHANGED <<pemKeys, cleanupVars, edge, moduleScope>>

\* if (keyUrl) { publicKeys = await getKeys(keyUrl); pemKeys = createPemKeys(...) }
\* else the script logs that the key could not be retrieved, and goes on
RetrieveKeys ==
    /\ dpc = "keys"
    /\ IF Truthy(keyUrl)
       THEN \E answer \in KeyAnswers :
               LET publicKeys == getKeys(answer)
                   keys == IF publicKeys = Thrown THEN Thrown
                           ELSE createPemKeys(Get(publicKeys, "keys"))
               IN  IF keys = Thrown
                   THEN dpc' = "caught" /\ UNCHANGED pemKeys
                   ELSE pemKeys' = keys /\ dpc' = "create"
       ELSE dpc' = "create" /\ UNCHANGED pemKeys
    /\ UNCHANGED <<keyUrl, cleanupVars, edge, moduleScope>>

\* createStack of the distribution stack with PublicKeys: JSON.stringify(pemKeys)
CreateDistribution ==
    /\ dpc = "create"
    /\ \E created \in BOOLEAN :
          IF created
          THEN moduleScope' = ModuleScope(KeysLiteral(pemKeys)) /\ dpc' = "ended"
          ELSE dpc' = "caught" /\ UNCHANGED moduleScope
    /\ UNCHANGED <<keyUrl, pemKeys, cleanupVars, edge>>

InitDeploy ==
    /\ InitEdge
    /\ NoCleanup
    /\ moduleScope = NotDeployed
    /\ dpc = "start"
    /\ keyUrl = Null
    /\ pemKeys = Null

NextDeploy ==
    \/ CreateUserPool
    \/ RetrieveKeys
    \/ CreateDistribution
    \/ ReceiveFew
    \/ CheckMethod
    \/ ScanCookies
    \/ Verify
    \/ CheckExpired
    \/ Entitle
    \/ Finish

SpecDeploy == InitDeploy /\ [][NextDeploy]_vars

-----------------------------------------------------------------------------
(* cleanup-script/cleanup-script.js: the statements at the top level and the promise
   chain, one action per await *)

\* const firstStackName
firstStackName == <<Ch("paywalldemo-userpool-stack")>>

\* the stacks the deployment script created, with their time stamp
UserPoolStack == firstStackName \o <<Ch("-1700")>>
DistributionStack == <<Ch("paywalldemo-cfdistribution-stack"), Ch("-1700")>>

\* names given on the command line: the two stacks, the bare first name, and a name that
\* holds the first name without beginning with it
StackNames ==
    {UserPoolStack, DistributionStack, firstStackName,
     <<Ch("my-")>> \o firstStackName}

\* process.argv[2] and process.argv[3]; undefined when not given
ArgPairs ==
    {<<a, b>> : a \in {Str(n) : n \in StackNames} \cup {Undefined},
                b \in {Str(n) : n \in StackNames} \cup {Undefined}}

\* what describeStacks resolves to for a stack name, by the outputs of the stack: the
\* distribution stack has the output CFDistributionId, the user pool stack has not;
\* there is no stack of any other name
Outputs(name) ==
    IF name = DistributionStack THEN {"CFDistributionId"}
    ELSE IF name = UserPoolStack THEN {"UserPoolUrl"}
    ELSE {}

\* the distribution configs getDistributionConfig may resolve to, as the quantities of
\* the LambdaFunctionAssociations of DistributionConfig.CacheBehaviors.Items: the one
\* behaviour of the template, two behaviours, no Items at all
Configs ==
    {[ETag |-> "E2K", Items |-> [t |-> "array", a |-> <<1>>]],
     [ETag |-> "E2K", Items |-> [t |-> "array", a |-> <<1, 0>>]],
     [ETag |-> "E2K", Items |-> Undefined]}

\* function updateConfigJson(id, config)
updateConfigJson(id, cfg) ==
    [Id |-> id,
     IfMatch |-> cfg.ETag,
     Items |-> IF ~Truthy(cfg.Items) THEN cfg.Items
               ELSE [t |-> "array", a |-> [i \in 1..Len(cfg.Items.a) |-> 0]]]

\* delay(15)
DelayMinutes == 15

\* counter === 3
MaxChecks == 3

\* an entry of the log of SDK calls and delays
Call(op, arg, ok, ret) == [op |-> op, arg |-> arg, ok |-> ok, ret |-> ret]

\* a normalisation that leaves the names as they were given
NormalizeNot ==
    /\ cpc = "order"
    /\ cpc' = "getId"
    /\ UNCHANGED <<argv, stack1, stack2, distributionid, config, counter, isDeployed,
                   awsLog, console>>
    /\ UNCHANGED <<edge, moduleScope, deployVars>>

\* a polling that gives up one check later
DistributionIsDeployedLate ==
    /\ cpc = "poll"
    /\ \E outcome \in {"rejected", "InProgress", "Deployed"} :
          /\ awsLog' = awsLog \o
                <<Call("delay", Num(DelayMinutes), TRUE, ""),
                  Call("getDistribution", distributionid, outcome # "rejected",
                       IF outcome = "rejected" THEN "" ELSE outcome)>>
          /\ IF outcome = "rejected"
             THEN /\ cpc' = "rejected"
                  /\ console' = Append(console, "Waiting for CloudFront distributions")
                  /\ UNCHANGED <<counter, isDeployed>>
             ELSE IF outcome = "Deployed"
             THEN /\ isDeployed' = Bool(TRUE)
                  /\ cpc' = "decide"
                  /\ console' = Append(console, "Waiting for CloudFront distributions")
                  /\ UNCHANGED counter
             ELSE IF counter = MaxChecks + 1
             THEN /\ isDeployed' = Bool(FALSE)
                  /\ cpc' = "decide"
                  /\ console' = console \o <<"Waiting for CloudFront distributions",
                                             "Maximim period to wait">>
                  /\ UNCHANGED counter
             ELSE /\ counter' = counter + 1
                  /\ console' = Append(console, "Waiting for CloudFront distributions")
                  /\ UNCHANGED <<cpc, isDeployed>>
    /\ UNCHANGED <<argv, stack1, stack2, distributionid, config>>
    /\ UNCHANGED <<edge, moduleScope, deployVars>>

\* a chain that removes the stacks whatever the polling said
DecideAlways ==
    /\ cpc = "decide"
    /\ cpc' = "remove"
    /\ UNCHANGED <<argv, stack1, stack2, distributionid, config, counter, isDeployed,
                   awsLog, console>>
    /\ UNCHANGED <<edge, moduleScope, deployVars>>

\* stack1 = process.argv[2]; stack2 = process.argv[3]; exit when one is missing
ReadArgs ==
    /\ cpc = "args"
    /\ stack1' = argv[1]
    /\ stack2' = argv[2]
    /\ IF ~Truthy(stack1') \/ ~Truthy(stack2')
       THEN /\ console' = Append(console, "Both stack names must be specified")
            /\ cpc' = "exit"
       ELSE /\ cpc' = "order"
            /\ UNCHANGED console
    /\ UNCHANGED <<argv, distributionid, config, counter, isDeployed, awsLog>>
    /\ UNCHANGED <<edge, moduleScope, deployVars>>

\* if (!stack1.startsWith(firstStackName)) the names are swapped
Normalize ==
    /\ cpc = "order"
    /\ IF ~StartsWith(stack1.s, firstStackName)
       THEN stack1' = stack2 /\ stack2' = stack1
       ELSE UNCHANGED <<stack1, stack2>>
    /\ cpc' = "getId"
    /\ UNCHANGED <<argv, distributionid, config, counter, isDeployed, awsLog, console>>
    /\ UNCHANGED <<edge, moduleScope, deployVars>>

\* getDistributionId(): describeStacks of stack2, the value of its output
\* CFDistributionId or null; then distributionid = id
GetDistributionId ==
    /\ cpc = "getId"
    /\ \E outcome \in {"rejected"} \cup Outputs(stack2.s) :
          /\ awsLog' = Append(awsLog,
                              Call("describeStacks", stack2, outcome # "rejected", ""))
          /\ IF outcome = "rejected"
             THEN cpc' = "rejected" /\ UNCHANGED distributionid
             ELSE /\ distributionid' = IF outcome = "CFDistributionId"
                                       THEN Str(<<Ch("E1D")>>) ELSE Null
                  /\ cpc' = "getConfig"
    /\ UNCHANGED <<argv, stack1, stack2, config, counter, isDeployed, console>>
    /\ UNCHANGED <<edge, moduleScope, deployVars>>

\* getDistributionConfig(distributionid): rejected when the Id is null
GetDistributionConfig ==
    /\ cpc = "getConfig"
    /\ \E ok \in BOOLEAN, answer \in Configs :
          /\ distributionid = Null => ~ok
          /\ awsLog' = Append(awsLog,
                              Call("getDistributionConfig", distributionid, ok, ""))
          /\ IF ok THEN config' = answer /\ cpc' = "update"
             ELSE cpc' = "rejected" /\ UNCHANGED config
    /\ UNCHANGED <<argv, stack1, stack2, distributionid, counter, isDeployed, console>>
    /\ UNCHANGED <<edge, moduleScope, deployVars>>

\* updateDistribution(id, config), to its first await: the update of the distribution
\* with the config of updateConfigJson
UpdateDistribution ==
    /\ cpc = "update"
    /\ \E ok \in BOOLEAN :
          /\ awsLog' = Append(awsLog,
                              Call("updateDistribution",
                                   updateConfigJson(distributionid, config), ok, ""))
          /\ cpc' = IF ok THEN "waitDeployed" ELSE "rejected"
    /\ console' = Append(console, "Updating CloudFront distribution")
    /\ UNCHANGED <<argv, stack1, stack2, distributionid, config, counter, isDeployed>>
    /\ UNCHANGED <<edge, moduleScope, deployVars>>

\* its second await, waitFor('distributionDeployed'); then distributionIsDeployed is
\* called with counter = 1
WaitForDeployed ==
    /\ cpc = "waitDeployed"
    /\ \E ok \in BOOLEAN :
          /\ awsLog' = Append(awsLog,
                              Call("waitFor distributionDeployed", distributionid, ok, ""))
          /\ IF ok THEN cpc' = "poll" /\ counter' = 1
             ELSE cpc' = "rejected" /\ UNCHANGED counter
    /\ UNCHANGED <<argv, stack1, stack2, distributionid, config, isDeployed, console>>
    /\ UNCHANGED <<edge, moduleScope, deployVars>>

\* one call of distributionIsDeployed(distributionId, counter): the delay, getDistribution,
\* and the three branches on the status and the counter
DistributionIsDeployed ==
    /\ cpc = "poll"
    /\ \E outcome \in {"rejected", "InProgress", "Deployed"} :
          /\ awsLog' = awsLog \o
                <<Call("delay", Num(DelayMinutes), TRUE, ""),
                  Call("getDistribution", distributionid, outcome # "rejected",
                       IF outcome = "rejected" THEN "" ELSE outcome)>>
          /\ IF outcome = "rejected"
             THEN /\ cpc' = "rejected"
                  /\ console' = Append(console, "Waiting for CloudFront distributions")
                  /\ UNCHANGED <<counter, isDeployed>>
             ELSE IF outcome = "Deployed"
             THEN /\ isDeployed' = Bool(TRUE)
                  /\ cpc' = "decide"
                  /\ console' = Append(console, "Waiting for CloudFront distributions")
                  /\ UNCHANGED counter
             ELSE IF counter = MaxChecks
             THEN /\ isDeployed' = Bool(FALSE)
                  /\ cpc' = "decide"
                  /\ console' = console \o <<"Waiting for CloudFront distributions",
                                             "Maximim period to wait">>
                  /\ UNCHANGED counter
             ELSE /\ counter' = counter + 1
                  /\ console' = Append(console, "Waiting for CloudFront distributions")
                  /\ UNCHANGED <<cpc, isDeployed>>
    /\ UNCHANGED <<argv, stack1, stack2, distributionid, config>>
    /\ UNCHANGED <<edge, moduleScope, deployVars>>

\* .then(isDeployed => { if (isDeployed) return removeStack(); else log and return })
Decide ==
    /\ cpc = "decide"
    /\ IF Truthy(isDeployed)
       THEN cpc' = "remove" /\ UNCHANGED console
       ELSE /\ console' = Append(console, "Could not remove the stack")
            /\ cpc' = "log"
    /\ UNCHANGED <<argv, stack1, stack2, distributionid, config, counter, isDeployed,
                   awsLog>>
    /\ UNCHANGED <<edge, moduleScope, deployVars>>

\* the four awaits of removeStack(), in their order
RemoveCalls ==
    <<[op |-> "deleteStack", arg |-> stack1],
      [op |-> "deleteStack", arg |-> stack2],
      [op |-> "waitFor stackDeleteComplete", arg |-> stack1],
      [op |-> "waitFor stackDeleteComplete", arg |-> stack2]>>

\* removeStack(): the awaits resolve one after the other until one is rejected
RemoveStack ==
    /\ cpc = "remove"
    /\ \E resolved \in 0..Len(RemoveCalls) :
          /\ awsLog' = awsLog \o
                [i \in 1..(IF resolved < Len(RemoveCalls) THEN resolved + 1
                           ELSE resolved) |->
                    Call(RemoveCalls[i].op, RemoveCalls[i].arg, i <= resolved, "")]
          /\ cpc' = IF resolved = Len(RemoveCalls) THEN "log" ELSE "rejected"
    /\ UNCHANGED <<argv, stack1, stack2, distributionid, config, counter, isDeployed,
                   console>>
    /\ UNCHANGED <<edge, moduleScope, deployVars>>

\* .then(() => { console.log('All resources have been removed.') })
LogRemoved ==
    /\ cpc = "log"
    /\ console' = Append(console, "All resources have been removed.")
    /\ cpc' = "end"
    /\ UNCHANGED <<argv, stack1, stack2, distributionid, config, counter, isDeployed,
                   awsLog>>
    /\ UNCHANGED <<edge, moduleScope, deployVars>>

\* .catch(e => { ... })
Catch ==
    /\ cpc = "rejected"
    /\ console' = Append(console, "An error occurred cleaning up resources.")
    /\ cpc' = "end"
    /\ UNCHANGED <<argv, stack1, stack2, distributionid, config, counter, isDeployed,
                   awsLog>>
    /\ UNCHANGED <<edge, moduleScope, deployVars>>

InitCleanup ==
    /\ InitEdge
    /\ Deployed
    /\ cpc = "args"
    /\ argv \in ArgPairs
    /\ stack1 = Null
    /\ stack2 = Null
    /\ distributionid = Null
    /\ config = Undefined
    /\ counter = 0
    /\ isDeployed = Undefined
    /\ awsLog = <<>>
    /\ console = <<>>

NextCleanup ==
    \/ ReadArgs
    \/ Normalize
    \/ GetDistributionId
    \/ GetDistributionConfig
    \/ UpdateDistribution
    \/ WaitForDeployed
    \/ DistributionIsDeployed
    \/ Decide
    \/ RemoveStack
    \/ LogRemoved
    \/ Catch

SpecCleanup == InitCleanup /\ [][NextCleanup]_vars

\* the event loop runs every continuation that is ready, and timers and SDK calls settle
FairCleanup == SpecCleanup /\ WF_vars(NextCleanup)

-----------------------------------------------------------------------------
(* Vocabulary of the properties *)

Done == pc = "done"

TrueValue == Str(<<Ch("true")>>)
FalseValue == Str(<<Ch("false")>>)

\* the key id a token's header names, "none" when it names none
KidOf(token) ==
    LET h == JSONparse(base64urlDecode(Split(token, Dot)[1]))
    IN  IF h.t = "object" /\ "kid" \in DOMAIN h.f /\ h.f.kid.t = "string"
           /\ Len(h.f.kid.s) = 1
        THEN h.f.kid.s[1].c ELSE "none"

\* the token's third segment is the signature, made with the private key of the key
\* stored for the header's kid, of its first two segments
SignedByNamedKey(token) ==
    LET parts == Split(token, Dot)
    IN  /\ Len(parts) >= 3
        /\ KidOf(token) \in DOMAIN KEYS
        /\ parts[3] = <<Sign(PrivateOf(KEYS[KidOf(token)]), parts[1] \o <<Dot>> \o parts[2])>>

\* the claims a token's second segment encodes
ClaimsOf(token) ==
    LET parts == Split(token, Dot)
    IN  IF Len(parts) >= 2 THEN JSONparse(base64urlDecode(parts[2])) ELSE Thrown

HasNumber(claims, name) ==
    claims.t = "object" /\ name \in DOMAIN claims.f /\ claims.f[name].t = "number"

\* exp is a time before the clock reading
ExpBefore(token, clock) ==
    HasNumber(ClaimsOf(token), "exp") /\ ClaimsOf(token).f.exp.n * 1000 < clock

\* the claims are as the identity provider writes them: exp a number, custom:subs a
\* comma-separated text or absent
WellFormedClaims(token) ==
    /\ HasNumber(ClaimsOf(token), "exp")
    /\ "subs" \in DOMAIN ClaimsOf(token).f => ClaimsOf(token).f.subs.t = "string"

\* the entries of the comma-separated custom:subs claim
SubscriptionsOf(token) ==
    IF /\ ClaimsOf(token).t = "object" /\ "subs" \in DOMAIN ClaimsOf(token).f
       /\ ClaimsOf(token).f.subs.t = "string"
    THEN LET list == Split(ClaimsOf(token).f.subs.s, Comma)
         IN  {list[i] : i \in 1..Len(list)}
    ELSE {}

\* the first segment of a path, in lower case
SlugOf(uri) == toLowerCase(Split(uri, Slash)[2])

\* the product code of a mapped slug
CodeOf(slug) == IF slug = <<Ch("product-a")>> THEN <<Ch("A")>> ELSE <<Ch("B")>>

\* the tokens of the request's jwt cookie: the text after 'jwt=' of the first entry that
\* mentions jwt=, when that entry begins with it
JwtCookieTokens(req) ==
    LET c == req.headers.cookie
    IN  {Substring(c[i], 4) : i \in {k \in 1..Len(c) :
            /\ StartsWith(c[k], STR)
            /\ \A j \in 1..(k - 1) : ~Contains(c[j], STR)}}

\* a GET request with a verifying, well-formed, unexpired token
ValidGet(req, clock) ==
    /\ req.method = "GET"
    /\ \E token \in JwtCookieTokens(req) :
          /\ SignedByNamedKey(token)
          /\ WellFormedClaims(token)
          /\ ~ExpBefore(token, clock)

\* the request that the handler returned
Forwarded == result.kind = "request"
Rejected == result.kind = "response"

-----------------------------------------------------------------------------
(* Properties of the handler *)

\* C1: a GET request with a verifying, unexpired token for a mapped product is forwarded
\* with x-is-subscriber 'true' when the product's code is exactly one of the entries of
\* custom:subs, and 'false' otherwise
C1_ExactMembership ==
    (Done /\ ValidGet(original, now) /\ SlugOf(original.uri) \in MappingKeys) =>
        /\ Forwarded
        /\ \A token \in JwtCookieTokens(original) :
              result.request.headers.xIsSubscriber =
                 IF CodeOf(SlugOf(original.uri)) \in SubscriptionsOf(token)
                 THEN TrueValue ELSE FalseValue

\* C1 witness: a subscriber of A and B asks for /Product-A/content/1 and is marked 'true'
C1_Witness ==
    /\ Done /\ ValidGet(original, now)
    /\ original.uri = Path("Product-A", "1")
    /\ \E token \in JwtCookieTokens(original) : Cardinality(SubscriptionsOf(token)) = 2
    /\ Forwarded /\ result.request.headers.xIsSubscriber = TrueValue

\* C3: a GET request whose token's exp is before the clock reading gets the 401 response,
\* whatever its signature, subscriptions and path; when the token verified, the return
\* taken is the one of the expiry check
C3_ExpiredRejected ==
    (Done /\ original.method = "GET" /\ jwt.t = "string" /\ ExpBefore(jwt.s, now)) =>
        /\ result = Reject
        /\ verified => retLine = 375

\* C3 witness: a verified, expired token on a path with an empty first segment
C3_Witness ==
    /\ Done /\ original.method = "GET" /\ jwt.t = "string" /\ ExpBefore(jwt.s, now)
    /\ verified /\ SlugOf(original.uri) = <<>> /\ result = Reject

\* C4: a GET request whose token is not signed by the key stored for the kid its header
\* names gets the 401 response, whatever its claims
C4_UnverifiedRejected ==
    (Done /\ original.method = "GET" /\ jwt.t = "string" /\ ~SignedByNamedKey(jwt.s)) =>
        result = Reject

\* C4 witness: a token signed with the private key of K1 under a kid the key set lacks
C4_Witness ==
    /\ Done /\ original.method = "GET" /\ jwt = Str(Token("hK9", "pA2", "priv1"))
    /\ result = Reject /\ retLine = 369

\* C5: getObj is called only after verify returned true for the same token text, and a
\* GET request for which verify did not return true gets the 401 response
C5_VerifyBeforeClaims ==
    /\ \A i \in 1..Len(calls) :
          calls[i].fn = "getObj" =>
             \E j \in 1..(i - 1) :
                calls[j] = [fn |-> "verify", arg |-> calls[i].arg, ret |-> Bool(TRUE)]
    /\ (obj # Undefined \/ pc = "entitle") =>
          \E j \in 1..Len(calls) : calls[j] = [fn |-> "verify", arg |-> jwt.s, ret |-> Bool(TRUE)]
    /\ (Done /\ original.method = "GET"
          /\ ~\E j \in 1..Len(calls) : calls[j].fn = "verify" /\ calls[j].ret = Bool(TRUE)) =>
          result = Reject

\* C5 witness: a forwarding decision taken after verify returned true
C5_Witness ==
    /\ Done /\ retLine = 400 /\ Len(calls) = 2
    /\ calls[1] = [fn |-> "verify", arg |-> jwt.s, ret |-> Bool(TRUE)]
    /\ calls[2].fn = "getObj"

\* what the handler extracts is no token, does not verify, or is expired
Unacceptable(req, clock) ==
    LET token == FindJwt(req.headers.cookie)
    IN  \/ ~Truthy(token)
        \/ ~SignedByNamedKey(token.s)
        \/ ExpBefore(token.s, clock)

\* C6 as stated: a HEAD request is filtered as a GET request is, so one with no cookie, an
\* invalid signature or an expired token gets the 401 response
C6_HeadFiltered ==
    (Done /\ original.method = "HEAD" /\ Unacceptable(original, now)) => result = Reject

\* C6 amended: a HEAD request is returned unchanged, whatever its cookies, and neither
\* its cookies nor a token are looked at
C6_HeadPassesThrough ==
    (Done /\ original.method = "HEAD") =>
        /\ result = Forward(original)
        /\ retLine = 344
        /\ jwt = Null /\ calls = <<>>

\* C6 witness: a HEAD request without cookies that says x-is-subscriber: true of itself
C6_Witness ==
    /\ Done /\ original.method = "HEAD" /\ original.headers.cookie = <<>>
    /\ original.headers.xIsSubscriber = TrueValue
    /\ result = Forward(original)

C8_PrefixOnly ==
    (Done /\ original.method = "GET") =>
        /\ jwt.t = "string" =>
              \E i \in 1..Len(original.headers.cookie) :
                 original.headers.cookie[i] = STR \o jwt.s
        /\ (\A i \in 1..Len(original.headers.cookie) :
               ~StartsWith(original.headers.cookie[i], STR)) =>
              result = Reject /\ calls = <<>>

\* the literal of the 401 response
PleaseLogin ==
    [status |-> "401", statusDescription |-> "Not authorized",
     headers |-> [contentType |-> <<[key |-> "Content-Type", value |-> "text/html"]>>],
     body |-> "Please login"]

\* C9: every return of a rejection (no token, verification failed, expired) gives the
\* same response, status 401, body 'Please login', one content-type header, and no
\* request to forward
C9_UniformRejection ==
    Done =>
        /\ retLine \in {363, 369, 375} =>
              result = [kind |-> "response", response |-> PleaseLogin]
        /\ Rejected =>
              /\ result.response = PleaseLogin
              /\ Cardinality(DOMAIN result.response.headers) = 1
              /\ DOMAIN result = {"kind", "response"}

\* C9 witness: an expired token is answered exactly as a missing cookie is
C9_Witness ==
    /\ Done /\ retLine = 375 /\ verified
    /\ result = [kind |-> "response", response |-> PleaseLogin]

\* C10 as stated: every invocation ends by returning the request or the 401 response
C10_NeverThrows == Done => result.kind \in {"request", "response"}

\* the token has exactly three segments, none of them empty
ThreeSegments(token) ==
    LET parts == Split(token, Dot)
    IN  Len(parts) = 3 /\ \A i \in 1..3 : parts[i] # <<>>

\* C11 as stated: a token that does not split on '.' into exactly three non-empty
\* segments (fewer segments, an empty segment, segments after the third) gets the 401
\* response
C11_ThreeSegmentsOnly ==
    (Done /\ original.method = "GET" /\ jwt.t = "string" /\ ~ThreeSegments(jwt.s)) =>
        result = Reject

\* C12: a request whose method is neither GET nor HEAD is returned as it came, no header
\* added, removed or altered, and neither its cookies nor a token are looked at
C12_OtherMethodsUnchanged ==
    (Done /\ original.method \notin {"GET", "HEAD"}) =>
        /\ result = Forward(original)
        /\ request = original
        /\ retLine = 344
        /\ jwt = Null /\ verified = FALSE /\ obj = Undefined /\ calls = <<>>

\* C12 witness: an OPTIONS request with a token whose signature is damaged, which says
\* x-is-subscriber: true of itself, is returned as it came
C12_Witness ==
    /\ Done /\ original.method = "OPTIONS"
    /\ original.headers.cookie = <<STR \o <<Ch("hK1"), Dot, Ch("pA2"), Dot, Ch("sBad")>>>>
    /\ original.headers.xIsSubscriber = TrueValue
    /\ result = Forward(original) /\ result.request.headers.xApiKey = Undefined

\* C13 as stated: every request the handler returns for forwarding carries x-api-key set
\* to the API key of the deployment
C13_ApiKeyOnEveryForward ==
    (Done /\ Forwarded) => result.request.headers.xApiKey = ApiKeyValue

\* the entries of the cookie header whose value contains 'jwt='
Matching(cookie) == {i \in 1..Len(cookie) : Contains(cookie[i], STR)}

\* the first of them
FirstMatch(cookie) ==
    cookie[CHOOSE i \in Matching(cookie) : \A j \in Matching(cookie) : i <= j]

\* C20: when entries of the cookie header match 'jwt=', the token is taken from the first
\* of them: verify and getObj see that text only, and a first entry whose token is not
\* signed by the key its header names gets the 401 response whatever follows it
C20_FirstMatchDecides ==
    (Done /\ original.method = "GET" /\ Matching(original.headers.cookie) # {}) =>
        LET first == Substring(FirstMatch(original.headers.cookie), Len(STR))
        IN  /\ jwt = Str(first)
            /\ \A i \in 1..Len(calls) : calls[i].arg = first
            /\ ~SignedByNamedKey(first) => result = Reject

\* C20 witness: a token with a damaged signature in the first entry, a verifying and
\* unexpired one in the second: the request is rejected at the verification
C20_Witness ==
    /\ Done /\ original.method = "GET" /\ Len(original.headers.cookie) = 2
    /\ original.headers.cookie[1] = STR \o <<Ch("hK1"), Dot, Ch("pA2"), Dot, Ch("sBad")>>
    /\ original.headers.cookie[2] = STR \o Token("hK1", "pA2", "priv1")
    /\ ~ExpBefore(Token("hK1", "pA2", "priv1"), now)
    /\ result = Reject /\ retLine = 369 /\ Len(calls) = 1

\* C14: the handler keeps no state from one invocation to another and never writes the
\* key set, the mapping or the 401 response: the module scope stays as it was deployed,
\* and two invocations of the same request that read the same clock, one after the other
\* or with their steps interleaved with each other's and with other invocations', end
\* with the same decision and the same request
C14_Stateless ==
    /\ moduleScope = ModuleScope(Obj(KEYS))
    /\ (pc = "done" /\ suspended.pc = "done"
          /\ suspended.original = original /\ suspended.now = now) =>
          /\ suspended.result = result
          /\ suspended.request = request
          /\ suspended.retLine = retLine

\* C14 witness: two invocations of the same GET request of a subscriber at the same clock
\* reading have both decided to forward it
C14_Witness ==
    /\ pc = "done" /\ suspended.pc = "done"
    /\ suspended.original = original /\ suspended.now = now
    /\ original.method = "GET"
    /\ original.headers.cookie = <<STR \o Token("hK1", "pA2", "priv1")>>
    /\ retLine = 400 /\ suspended.result = result
    /\ result.request.headers.xIsSubscriber = TrueValue

\* C21: a GET request for a mapped product whose token is signed by the key its header
\* names and whose second segment does not decode to JSON is not rejected: getObj gives
\* an empty array, the subscriptions are empty, and the request is forwarded with
\* x-is-subscriber 'false' and the x-api-key header
C21_NoJsonNoSubscriptions ==
    (Done /\ original.method = "GET" /\ jwt.t = "string"
       /\ SignedByNamedKey(jwt.s) /\ ClaimsOf(jwt.s) = Thrown
       /\ SlugOf(original.uri) \in MappingKeys) =>
        /\ obj = EmptyArray
        /\ retLine = 400
        /\ result = Forward([original EXCEPT !.headers.xIsSubscriber = FalseValue,
                                             !.headers.xApiKey = ApiKeyValue])

\* C21 witness: a token signed with the first key whose payload is no JSON, sent for
\* /Product-A/content/1 with x-is-subscriber: true, is forwarded marked 'false'
C21_Witness ==
    /\ Done /\ original.method = "GET"
    /\ jwt = Str(Token("hK1", "pBad", "priv1"))
    /\ original.uri = Path("Product-A", "1")
    /\ original.headers.xIsSubscriber = TrueValue
    /\ verified /\ obj = EmptyArray
    /\ Forwarded /\ result.request.headers.xIsSubscriber = FalseValue

\* the handler went on to the subscriptions and the product of the url
EntitlementEvaluated == retLine \in {378, 383, 400}

\* C22: a GET request whose token verified is rejected at the expiry check exactly when
\* its claims have a number exp that is less than the clock reading in seconds; with exp
\* equal to the clock reading, or claims without exp, it is not rejected and the handler
\* goes on to the entitlement
C22_StrictlyBefore ==
    (Done /\ original.method = "GET" /\ verified) =>
        /\ retLine = 375 <=> ExpBefore(jwt.s, now)
        /\ Rejected <=> ExpBefore(jwt.s, now)
        /\ (~ExpBefore(jwt.s, now) /\ ClaimsOf(jwt.s) # Null) => EntitlementEvaluated

\* C22 witness: a token with exp 2 is read at 2000 ms, the second of its expiry, and the
\* request is forwarded with the entitlement headers
C22_Witness ==
    /\ Done /\ original.method = "GET" /\ verified
    /\ jwt = Str(Token("hK1", "pA2", "priv1"))
    /\ ClaimsOf(jwt.s).f.exp = Num(2) /\ now = 2000
    /\ retLine = 400 /\ result.request.headers.xApiKey = ApiKeyValue

-----------------------------------------------------------------------------
(* Properties of the distribution *)

\* the request carries a verifying, unexpired token whose subscriptions include the
\* code of the product of its path
Entitled(req, clock) ==
    /\ SlugOf(req.uri) \in MappingKeys
    /\ \E token \in JwtCookieTokens(req) :
          /\ SignedByNamedKey(token)
          /\ ~ExpBefore(token, clock)
          /\ CodeOf(SlugOf(req.uri)) \in SubscriptionsOf(token)

\* C2: a GET request gets 'Full content' only if it carries itself a verifying, unexpired
\* token subscribed to the product of its path, whatever was cached before and whatever
\* x-is-subscriber header it brings; any other GET request that is served content gets
\* 'Preview only'
C2_FullContentOnlyForSubscribers ==
    (pc = "served" /\ original.method = "GET") =>
        /\ response.body = "Full content" => Entitled(original, now)
        /\ (response.status = "200" /\ ~Entitled(original, now)) =>
              response.body = "Preview only"

\* C2 witness: the subscriber's response is cached, and a viewer without the
\* subscription who sends x-is-subscriber: true itself is served the preview
C2_Witness ==
    /\ pc = "served" /\ original.method = "GET"
    /\ original.headers.xIsSubscriber = TrueValue
    /\ ~Entitled(original, now)
    /\ [uri |-> original.uri, xIsSubscriber |-> TrueValue] \in DOMAIN cache
    /\ response = [status |-> "200", body |-> "Preview only"]

\* the origin answers the path with content: it has a product name and a content id
IsContentUrl(uri) ==
    LET pathTokens == Split(uri, Slash)
    IN  Len(pathTokens) >= 4 /\ pathTokens[2] # <<>> /\ pathTokens[4] # <<>>

RECURSIVE SumOver(_)
SumOver(keys) ==
    IF keys = {} THEN 0
    ELSE LET key == CHOOSE k \in keys : TRUE
         IN  originLog[key] + SumOver(keys \ {key})

\* how often the origin function ran for a path and a value of x-is-subscriber
OriginRuns(uri, x) ==
    SumOver({key \in DOMAIN originLog : key.uri = uri /\ key.xIsSubscriber = x})

\* C19: for a content URL the origin function runs at most once for the requests marked
\* 'true' and at most once for those marked 'false'; a cache entry is kept under the
\* path and the x-is-subscriber value alone, and every forwarded GET request for a
\* content URL is answered with the entry of its path and mark, after exactly one run of
\* the origin for them
C19_OriginOncePerMark ==
    /\ \A key \in DOMAIN originLog :
          IsContentUrl(key.uri) => OriginRuns(key.uri, key.xIsSubscriber) <= 1
    /\ \A key \in DOMAIN cache : DOMAIN key = {"uri", "xIsSubscriber"}
    /\ (pc = "served" /\ original.method = "GET" /\ retLine = 400
          /\ IsContentUrl(original.uri)) =>
          LET key == [uri |-> original.uri,
                      xIsSubscriber |-> result.request.headers.xIsSubscriber]
          IN  /\ key \in DOMAIN cache
              /\ response = cache[key]
              /\ OriginRuns(key.uri, key.xIsSubscriber) = 1

\* C19 witness: both the full content and the preview of /product-a/content/1 are cached
\* after one run of the origin each, and a further GET request of the subscriber has been
\* passed by the handler
C19_Witness ==
    /\ pc = "done" /\ original.method = "GET" /\ retLine = 400
    /\ original.uri = Path("product-a", "1")
    /\ result.request.headers.xIsSubscriber = TrueValue
    /\ [uri |-> original.uri, xIsSubscriber |-> TrueValue] \in DOMAIN cache
    /\ [uri |-> original.uri, xIsSubscriber |-> FalseValue] \in DOMAIN cache
    /\ OriginRuns(original.uri, TrueValue) = 1
    /\ OriginRuns(original.uri, FalseValue) = 1

-----------------------------------------------------------------------------
(* Properties of the deployment *)

\* the function's key set holds a key
HasKeys == moduleScope.KEYS.t = "object" /\ DOMAIN moduleScope.KEYS.f # {}

\* C15 as stated: when the keys cannot be obtained (no key URL output, an empty or
\* malformed answer) the function is not put into service, so that no request is
\* evaluated with a key set that is null or empty
C15_NoServiceWithoutKeys ==
    /\ moduleScope # NotDeployed => HasKeys
    /\ pc # "idle" => HasKeys

-----------------------------------------------------------------------------
(* Properties of the cleanup script *)

\* the entries of the log that are calls of op
CallsOf(op) == {i \in 1..Len(awsLog) : awsLog[i].op = op}

\* a submitted update of the distribution that leaves no cache behaviour with a Lambda
\* association
RemovesAssociations(entry) ==
    /\ entry.op = "updateDistribution"
    /\ entry.ok
    /\ entry.arg.Items.t = "array" =>
          \A i \in 1..Len(entry.arg.Items.a) : entry.arg.Items.a[i] = 0

\* the steps that come before the removal of the stacks
StepsBeforeRemoval ==
    {"describeStacks", "getDistributionConfig", "updateDistribution",
     "waitFor distributionDeployed", "getDistribution"}

\* C16: deleteStack is called only after an update of the distribution without Lambda
\* associations was submitted and a later status check answered 'Deployed'; when the
\* description of the stack, the fetch of the config, the update or the polling was
\* rejected, or the polling gave up, deleteStack is called for neither stack
C16_DeleteOnlyAfterDeployed ==
    /\ \A d \in CallsOf("deleteStack") :
          \E u \in 1..(d - 1) : \E g \in (u + 1)..(d - 1) :
             /\ RemovesAssociations(awsLog[u])
             /\ awsLog[g].op = "getDistribution" /\ awsLog[g].ret = "Deployed"
    /\ (\E i \in 1..Len(awsLog) :
           awsLog[i].op \in StepsBeforeRemoval /\ ~awsLog[i].ok) =>
          CallsOf("deleteStack") = {}
    /\ isDeployed = Bool(FALSE) => CallsOf("deleteStack") = {}
    /\ (cpc = "end" /\ CallsOf("getDistribution") = {}) => CallsOf("deleteStack") = {}

\* C16 witness: both stacks were asked to be deleted, after the update and a second
\* status check that answered 'Deployed'
C16_Witness ==
    /\ Cardinality(CallsOf("deleteStack")) = 2
    /\ Cardinality(CallsOf("getDistribution")) = 2
    /\ \E u \in CallsOf("updateDistribution") :
          awsLog[u].arg.Items = [t |-> "array", a |-> <<0, 0>>]
    /\ \E d \in CallsOf("deleteStack") : awsLog[d].arg = Str(DistributionStack)
    /\ \E d \in CallsOf("deleteStack") : awsLog[d].arg = Str(UserPoolStack)

\* the minutes the script has waited in delay
MinutesDelayed ==
    LET RECURSIVE Sum(_)
        Sum(is) == IF is = {} THEN 0
                   ELSE LET i == CHOOSE k \in is : TRUE
                        IN  awsLog[i].arg.n + Sum(is \ {i})
    IN  Sum(CallsOf("delay"))

\* distributionIsDeployed makes at most 3 status checks, each straight after one delay of
\* 15 minutes, 45 minutes in all; it resolves to true at the first check that answers
\* 'Deployed', after which there is no further check, and to false exactly when three
\* checks answered something else
ThreeChecks ==
    /\ Cardinality(CallsOf("getDistribution")) <= 3
    /\ Cardinality(CallsOf("delay")) = Cardinality(CallsOf("getDistribution"))
    /\ \A g \in CallsOf("getDistribution") :
          g > 1 /\ awsLog[g - 1] = Call("delay", Num(15), TRUE, "")
    /\ MinutesDelayed <= 45
    /\ \A g \in CallsOf("getDistribution") :
          awsLog[g].ret = "Deployed" =>
             /\ isDeployed = Bool(TRUE)
             /\ \A h \in CallsOf("getDistribution") : h <= g
    /\ isDeployed = Bool(TRUE) =>
          \E g \in CallsOf("getDistribution") : awsLog[g].ret = "Deployed"
    /\ isDeployed = Bool(FALSE) <=>
          /\ Cardinality(CallsOf("getDistribution")) = 3
          /\ \A g \in CallsOf("getDistribution") : awsLog[g].ret = "InProgress"
    /\ cpc = "poll" =>
          /\ isDeployed = Undefined
          /\ counter = Cardinality(CallsOf("getDistribution")) + 1

\* C17: distributionIsDeployed always terminates, after at most 3 status checks with one
\* 15-minute delay before each: true at the first 'Deployed', false when the third check
\* does not answer 'Deployed', and never a fourth check
C17_TerminatesInThreeChecks ==
    /\ []ThreeChecks
    /\ (cpc = "poll") ~> (cpc # "poll")

\* C17 witness: three checks answered 'InProgress' after 45 minutes of delay, and the
\* polling resolved to false
C17_Witness ==
    /\ cpc = "decide" /\ isDeployed = Bool(FALSE)
    /\ Cardinality(CallsOf("getDistribution")) = 3
    /\ MinutesDelayed = 45

\* exactly one of the two names given begins with firstStackName
OneUserPoolName ==
    /\ argv[1].t = "string" /\ argv[2].t = "string"
    /\ StartsWith(argv[1].s, firstStackName) # StartsWith(argv[2].s, firstStackName)

\* C18: when exactly one of the two names given begins with 'paywalldemo-userpool-stack',
\* in either order, then after the normalisation stack1 is that name and stack2 the
\* other, and the distribution Id is looked up in the stack of the other name
C18_NamesInAnyOrder ==
    (OneUserPoolName /\ cpc \notin {"off", "args", "order", "exit"}) =>
        /\ StartsWith(stack1.s, firstStackName)
        /\ ~StartsWith(stack2.s, firstStackName)
        /\ {stack1, stack2} = {argv[1], argv[2]}
        /\ \A i \in CallsOf("describeStacks") :
              /\ awsLog[i].arg = stack2
              /\ ~StartsWith(awsLog[i].arg.s, firstStackName)
        /\ \A i \in CallsOf("deleteStack") : awsLog[i].arg \in {stack1, stack2}

\* C18 witness: the distribution stack was named first and the user pool stack second,
\* and the Id was found in the outputs of the distribution stack
C18_Witness ==
    /\ argv = <<Str(DistributionStack), Str(UserPoolStack)>>
    /\ stack1 = Str(UserPoolStack) /\ stack2 = Str(DistributionStack)
    /\ CallsOf("describeStacks") # {}
    /\ distributionid = Str(<<Ch("E1D")>>)

\* removeStack() has completed: both deletions were requested and both waits resolved
RemovalCompleted ==
    /\ \A i \in 1..Len(RemoveCalls) :
          \E j \in 1..Len(awsLog) :
             awsLog[j] = Call(RemoveCalls[i].op, RemoveCalls[i].arg, TRUE, "")
    /\ Cardinality(CallsOf("deleteStack")) = 2
    /\ Cardinality(CallsOf("waitFor stackDeleteComplete")) = 2

\* the script has logged line
Logged(line) == \E i \in 1..Len(console) : console[i] = line

\* C23 as stated: 'All resources have been removed.' is logged only after removeStack
\* has completed, and never on a run in which the polling gave up and no stack was
\* deleted
C23_RemovedOnlyAfterRemoval ==
    Logged("All resources have been removed.") =>
        /\ RemovalCompleted
        /\ ~(isDeployed = Bool(FALSE) /\ CallsOf("deleteStack") = {})

=============================================================================
